---- MODULE Spec2Model ----
(***************************************************************************)
(* Model of the "Topo to STL" component:                                   *)
(*   calcSteps                  (decimation planner)         SpecPlan      *)
(*   buildSolidGeometry         (solid mesh builder)         Spec          *)
(*   scalePositionsFromGeometry (export scaling)             SpecExport    *)
(*   importH5Wasm               (provider chain)             SpecImport    *)
(*   loadNetCDF, buildOrUpdateMesh, the rebuild effect       SpecApp       *)
(*                                                                         *)
(* Numbers.  Elevations, the exaggeration and the base thickness are held  *)
(* in half units (value * 2), so that an exaggeration of 0.5 is the        *)
(* integer 1.  Every value the model draws is a dyadic rational of small   *)
(* magnitude, which Float32Array and double arithmetic hold exactly.       *)
(* x and y are held in units of mPerDegLon and mPerDegLat metres (the two  *)
(* per-build constants of lines 317-318), i.e. as degree differences.      *)
(* Arrays are functions on 0..n-1, as in the source; faces is a sequence   *)
(* grown by push.                                                          *)
(***************************************************************************)
EXTENDS Integers, Sequences, FiniteSets

VARIABLES
    pc,          \* position inside buildSolidGeometry / calcSteps
    R, C,        \* shape of the source grid
    lats, lons,  \* axis arrays of the source grid
    Z,           \* flat row-major elevation array
    exag,        \* exaggeration, half units
    base,        \* baseThickness, half units
    maxDim,      \* maxDim argument of buildSolidGeometry
    stepY, stepX,                               \* result of calcSteps
    rows1, cols1,
    rowsIdx, colsIdx,
    scanRow,     \* ii of the surface scan
    zMinSurface, zMaxSurface, bottomZ,
    positions, colors,
    faces

\* scalePositionsFromGeometry
VARIABLES
    expPc,       \* position inside scalePositionsFromGeometry
    expG,        \* the geometry g: position, index and color arrays
    expG0,       \* history: g as it was when the function was called
    expScale,    \* the scale argument
    expArr,      \* arr, the new buffer
    expI         \* loop variable i

\* importH5Wasm
VARIABLES
    impPc,       \* position inside importH5Wasm
    impEnv,      \* what each provider does in this environment
    impTried,    \* history: providers tried, in order
    impUrl,      \* position of the loop over cdnList
    lastErr,
    impResult    \* how the call ended: returned module or thrown value

\* the component: React state, refs, timers and pending async bodies
VARIABLES
    exaggeration, baseThickness, targetMaxDim,   \* state of the current render
    gridRef, meshRef,
    scene,       \* terrain meshes in the scene
    disposed,    \* history: meshes whose geometry and material were disposed
    busy, error,
    loads,       \* loadNetCDF calls suspended in the awaits of lines 191-193
    builds,      \* buildOrUpdateMesh calls suspended in their 10 ms await
    timer,       \* the debounce timer of the rebuild effect
    building,    \* the buildOrUpdateMesh body that is running, if any
    nLoads, nChanges, nMeshes,
    loadLog      \* observation: how the load that has just ended ended

coreVars == <<pc, R, C, lats, lons, Z, exag, base, maxDim,
              stepY, stepX,
              rows1, cols1, rowsIdx, colsIdx, scanRow,
              zMinSurface, zMaxSurface, bottomZ, positions, colors, faces>>
exportVars == <<expPc, expG, expG0, expScale, expArr, expI>>
importVars == <<impPc, impEnv, impTried, impUrl, lastErr, impResult>>
appVars == <<exaggeration, baseThickness, targetMaxDim, gridRef, meshRef,
             scene, disposed, busy, error, loads, builds, timer, building,
             nLoads, nChanges, nMeshes, loadLog>>
\* everything outside the geometry core
shellVars == <<exportVars, importVars, appVars>>
vars == <<coreVars, exportVars, importVars, appVars>>

\* The parts of the program a specification does not exercise stay as they
\* are before any call.
CoreIdle ==
    /\ pc = "off"
    /\ R = 0 /\ C = 0 /\ maxDim = 0
    /\ lats = <<>> /\ lons = <<>> /\ Z = <<>>
    /\ exag = 2 /\ base = 0
    /\ stepY = 0 /\ stepX = 0 /\ rows1 = 0 /\ cols1 = 0
    /\ rowsIdx = <<>> /\ colsIdx = <<>> /\ scanRow = 0
    /\ zMinSurface = 0 /\ zMaxSurface = 0 /\ bottomZ = 0
    /\ positions = <<>> /\ colors = <<>> /\ faces = <<>>
ExportIdle ==
    /\ expPc = "off"
    /\ expG = <<>> /\ expG0 = <<>> /\ expScale = 0 /\ expArr = <<>> /\ expI = 0
ImportIdle ==
    /\ impPc = "off"
    /\ impEnv = <<>> /\ impTried = <<>> /\ impUrl = 0
    /\ lastErr = <<>> /\ impResult = <<>>
AppIdle ==
    /\ exaggeration = 0 /\ baseThickness = 0 /\ targetMaxDim = 0
    /\ gridRef = <<>> /\ meshRef = <<>> /\ scene = {} /\ disposed = {}
    /\ busy = "" /\ error = ""
    /\ loads = {} /\ builds = <<>> /\ timer = <<>> /\ building = <<>>
    /\ nLoads = 0 /\ nChanges = 0 /\ nMeshes = 0
    /\ loadLog = <<>>

----------------------------------------------------------------------------
(* Program constants *)

MAX_DIM == 1200
MAX_VERTICES == 1500000
MinDim == 100
MaxFactor == 20
PosInfinity == 1000000000

(* Bounds of the model *)

MaxSmall == 3       \* small grids are 1..MaxSmall rows and columns
MaxMod == 3         \* period of the elevation pattern
MaxOff == 1         \* offset of the elevation pattern
PlanSpread == 1     \* planner shapes: each boundary size b and b+1..b+PlanSpread

----------------------------------------------------------------------------
(* Helpers *)

Max(a, b) == IF a >= b THEN a ELSE b
Min(a, b) == IF a <= b THEN a ELSE b

Abs(n) == IF n < 0 THEN -n ELSE n

\* Math.ceil(a / b) for a >= 0, b >= 1
Ceil(a, b) == (a + b - 1) \div b

\* faulty variant: no clamping
clampM(n, lo, hi) == n
clamp(n, lo, hi) == Max(lo, Min(hi, n))

----------------------------------------------------------------------------
(* calcSteps *)

\* faulty variant: top vertices only, not doubled
OverBudgetM(er, ec) == er * ec > MAX_VERTICES
OverBudget(er, ec) == er * ec * 2 > MAX_VERTICES

\* the while loop of calcSteps, entered with factor = f: the value of factor
\* when the loop is left
RECURSIVE FactorLoop(_, _, _)
FactorLoop(er, ec, f) ==
    IF OverBudget(er, ec)
    THEN IF f + 1 > MaxFactor THEN f + 1 ELSE FactorLoop(er, ec, f + 1)
    ELSE f

calcSteps(r, c, md) ==
    LET sY == Max(1, Ceil(r, md))
        sX == Max(1, Ceil(c, md))
        estRows == Ceil(r, sY)
        estCols == Ceil(c, sX)
        factor == FactorLoop(estRows, estCols, 1)
    IN  [stepY |-> sY * factor, stepX |-> sX * factor]

\* lines 310-313: the strides and the decimated counts
PlanStrides ==
    /\ pc = "calcSteps"
    /\ LET steps == calcSteps(R, C, clamp(maxDim, MinDim, MAX_DIM))
       IN  /\ stepY' = steps.stepY
           /\ stepX' = steps.stepX
    /\ rows1' = Ceil(R, stepY')
    /\ cols1' = Ceil(C, stepX')
    /\ pc' = "tables"
    /\ UNCHANGED shellVars
    /\ UNCHANGED <<R, C, lats, lons, Z, exag, base, maxDim, rowsIdx, colsIdx, scanRow,
                   zMinSurface, zMaxSurface, bottomZ, positions, colors, faces>>

----------------------------------------------------------------------------
(* buildSolidGeometry: lookup tables *)

IdxTable(n, step, dim) == [i \in 0..(n - 1) |-> Min(i * step, dim - 1)]

BuildTables ==
    /\ pc = "tables"
    /\ rowsIdx' = IdxTable(rows1, stepY, R)
    /\ colsIdx' = IdxTable(cols1, stepX, C)
    /\ pc' = "minmax"
    /\ UNCHANGED shellVars
    /\ UNCHANGED <<R, C, lats, lons, Z, exag, base, maxDim,
                   stepY, stepX,
                   rows1, cols1, scanRow,
                   zMinSurface, zMaxSurface, bottomZ, positions, colors, faces>>

----------------------------------------------------------------------------
(* Planner specification: calcSteps and the lookup tables on large shapes *)

PlanBase == {1, 99, 100, 199, 200, 866, 1200, 2400, 5000, 12247, 150000000}
PlanDims == {b + d : b \in PlanBase, d \in 0..PlanSpread}
PlanMaxDims == {50, 100, 200, 999, 1200, 5000}

InitPlan ==
    /\ pc = "calcSteps"
    /\ R \in PlanDims
    /\ C \in PlanDims
    /\ maxDim \in PlanMaxDims
    /\ lats = <<>> /\ lons = <<>> /\ Z = <<>>
    /\ exag = 2 /\ base = 0
    /\ stepY = 0 /\ stepX = 0 /\ rows1 = 0 /\ cols1 = 0
    /\ rowsIdx = <<>> /\ colsIdx = <<>> /\ scanRow = 0
    /\ zMinSurface = 0 /\ zMaxSurface = 0 /\ bottomZ = 0
    /\ positions = <<>> /\ colors = <<>> /\ faces = <<>>
    /\ ExportIdle /\ ImportIdle /\ AppIdle

NextPlan ==
    \/ PlanStrides
    \/ BuildTables

SpecPlan == InitPlan /\ [][NextPlan]_vars

----------------------------------------------------------------------------
(* buildSolidGeometry: surface scan, bottom plane, buffers *)

topVerts == rows1 * cols1

\* faulty variant: the bottom vertices are not counted
totalVertsM == topVerts
totalVerts == topVerts * 2

getZ(i, j) == Z[i * C + j] * exag

\* elevation of the sampled point (ii, jj)
SampleZ(ii, jj) == getZ(rowsIdx[ii], colsIdx[jj])

\* the inner loop over jj of the surface scan, from column jj on
RECURSIVE RowMin(_, _, _)
RowMin(ii, jj, acc) ==
    IF jj = cols1 THEN acc
    ELSE IF SampleZ(ii, jj) < acc THEN RowMin(ii, jj + 1, SampleZ(ii, jj))
         ELSE RowMin(ii, jj + 1, acc)

RECURSIVE RowMax(_, _, _)
RowMax(ii, jj, acc) ==
    IF jj = cols1 THEN acc
    ELSE IF SampleZ(ii, jj) > acc THEN RowMax(ii, jj + 1, SampleZ(ii, jj))
         ELSE RowMax(ii, jj + 1, acc)

\* faulty variants: no Math.abs; minimum clamped at zero
BottomPlaneM(zmin, b) == zmin - b
BottomPlaneClamped(zmin, b) == Max(0, zmin) - Abs(b)
BottomPlane(zmin, b) == zmin - Abs(b)

\* lines 330-331
ScanBegin ==
    /\ pc = "minmax"
    /\ zMinSurface' = PosInfinity
    /\ zMaxSurface' = -PosInfinity
    /\ scanRow' = 0
    /\ pc' = "scan"
    /\ UNCHANGED shellVars
    /\ UNCHANGED <<R, C, lats, lons, Z, exag, base, maxDim, stepY, stepX,
                   rows1, cols1, rowsIdx, colsIdx, bottomZ, positions, colors, faces>>

\* one pass of the outer loop over ii (lines 332-340)
ScanRow ==
    /\ pc = "scan"
    /\ scanRow < rows1
    /\ zMinSurface' = RowMin(scanRow, 0, zMinSurface)
    /\ zMaxSurface' = RowMax(scanRow, 0, zMaxSurface)
    /\ scanRow' = scanRow + 1
    /\ UNCHANGED shellVars
    /\ UNCHANGED <<pc, R, C, lats, lons, Z, exag, base, maxDim, stepY, stepX,
                   rows1, cols1, rowsIdx, colsIdx, bottomZ, positions, colors, faces>>

\* lines 342-348: the bottom plane and the two buffers
ScanEnd ==
    /\ pc = "scan"
    /\ scanRow = rows1
    /\ bottomZ' = BottomPlane(zMinSurface, base)
    /\ positions' = [k \in 0..(totalVerts * 3 - 1) |-> 0]
    /\ colors' = [k \in 0..(totalVerts * 3 - 1) |-> 0]
    /\ pc' = "fillTop"
    /\ UNCHANGED shellVars
    /\ UNCHANGED <<R, C, lats, lons, Z, exag, base, maxDim, stepY, stepX,
                   rows1, cols1, rowsIdx, colsIdx, scanRow,
                   zMinSurface, zMaxSurface, faces>>

\* component m (0 = x, 1 = y, 2 = z) of top vertex v
TopComponent(v, m) ==
    LET i0 == rowsIdx[v \div cols1]
        j0 == colsIdx[v % cols1]
    IN  CASE m = 0 -> lons[j0] - lons[colsIdx[0]]
          [] m = 1 -> lats[i0] - lats[rowsIdx[0]]
          [] OTHER -> getZ(i0, j0)

FillTop ==
    /\ pc = "fillTop"
    /\ positions' = [k \in DOMAIN positions |->
                       IF k < topVerts * 3 THEN TopComponent(k \div 3, k % 3)
                       ELSE positions[k]]
    /\ colors' = [k \in DOMAIN colors |-> IF k < topVerts * 3 THEN 0 ELSE colors[k]]
    /\ pc' = "fillBottom"
    /\ UNCHANGED shellVars
    /\ UNCHANGED <<R, C, lats, lons, Z, exag, base, maxDim,
                   stepY, stepX,
                   rows1, cols1, rowsIdx, colsIdx, scanRow,
                   zMinSurface, zMaxSurface, bottomZ, faces>>

Gray == 200000       \* 0.2 in millionths

\* component m of the bottom vertex written for top vertex idxTop
BottomComponent(idxTop, m) ==
    IF m = 2 THEN bottomZ ELSE positions[idxTop * 3 + m]

FillBottom ==
    /\ pc = "fillBottom"
    /\ positions' = [k \in DOMAIN positions |->
                       IF k >= topVerts * 3
                       THEN BottomComponent((k \div 3) - topVerts, k % 3)
                       ELSE positions[k]]
    /\ colors' = [k \in DOMAIN colors |-> IF k >= topVerts * 3 THEN Gray ELSE colors[k]]
    /\ pc' = "colorTop"
    /\ UNCHANGED shellVars
    /\ UNCHANGED <<R, C, lats, lons, Z, exag, base, maxDim,
                   stepY, stepX,
                   rows1, cols1, rowsIdx, colsIdx, scanRow,
                   zMinSurface, zMaxSurface, bottomZ, faces>>

----------------------------------------------------------------------------
(* viridis and the colour pass.  Channels and the viridis coefficients are  *)
(* in millionths; t is in thousandths.                                     *)

\* floor of the square root of n, by bisection on lo..hi
RECURSIVE SqrtBetween(_, _, _)
SqrtBetween(n, lo, hi) ==
    IF lo >= hi THEN lo
    ELSE LET mid == (lo + hi + 1) \div 2
         IN  IF mid * mid <= n THEN SqrtBetween(n, mid, hi)
             ELSE SqrtBetween(n, lo, mid - 1)

\* Math.pow(t, e) for the five exponents of viridis, t and result in thousandths
PowT(t, e) ==
    CASE e = "2.0" -> (t * t) \div 1000
      [] e = "1.5" -> (t * SqrtBetween(t * 1000, 0, 1000)) \div 1000
      [] e = "1.0" -> t
      [] e = "0.5" -> SqrtBetween(t * 1000, 0, 1000)
      [] OTHER    -> 1000

ViridisA == <<280268, 165368, 476043>>
ViridisB == <<233930, 472705, 310964>>
ViridisC == <<43831, 530361, 393395>>
ViridisD == <<"2.0", "1.5", "1.0">>
ViridisE == <<"0.0", "0.5", "1.0">>

\* channel ch (1 = r, 2 = g, 3 = b) before the final clamp
ViridisRaw(t, ch) ==
    ViridisA[ch] + (ViridisB[ch] * PowT(t, ViridisD[ch])) \div 1000
                 + (ViridisC[ch] * PowT(t, ViridisE[ch])) \div 1000

\* faulty variant: the channels are not clamped
viridisM(t) == [ch \in 1..3 |-> ViridisRaw(t, ch)]
viridis(t) == [ch \in 1..3 |-> Min(1000000, Max(0, ViridisRaw(t, ch)))]

\* t = clamp((z - zMinSurface) / Math.max(1e-6, zMaxSurface - zMinSurface), 0, 1)
\* in thousandths.  The range is a whole number of half units, so it exceeds
\* 1e-6 exactly when it is not zero.
ColorT(z) ==
    LET range == zMaxSurface - zMinSurface
    IN  IF range > 0
        THEN clamp(((z - zMinSurface) * 1000) \div range, 0, 1000)
        ELSE clamp((z - zMinSurface) * 1000000, 0, 1000)

ColorTop ==
    /\ pc = "colorTop"
    /\ colors' = [k \in DOMAIN colors |->
                    IF k < topVerts * 3
                    THEN viridis(ColorT(positions[(k \div 3) * 3 + 2]))[(k % 3) + 1]
                    ELSE colors[k]]
    /\ pc' = "facesTop"
    /\ UNCHANGED shellVars
    /\ UNCHANGED <<R, C, lats, lons, Z, exag, base, maxDim,
                   stepY, stepX,
                   rows1, cols1, rowsIdx, colsIdx, scanRow,
                   zMinSurface, zMaxSurface, bottomZ, positions, faces>>

----------------------------------------------------------------------------
(* Triangulation *)

top(r, c) == r * cols1 + c

\* faulty variant: the column is dropped
bottomM(r, c) == topVerts + r * cols1
bottom(r, c) == topVerts + r * cols1 + c

\* the six indices pushed for cell (i, j) of the top surface
TopQuad(i, j) ==
    LET v0 == top(i, j)
        v1 == top(i, j + 1)
        v2 == top(i + 1, j)
        v3 == top(i + 1, j + 1)
    IN  <<v0, v1, v3, v0, v3, v2>>

\* the six indices pushed for cell (i, j) of the bottom surface
BottomQuad(i, j) ==
    LET v0 == bottom(i, j)
        v1 == bottom(i, j + 1)
        v2 == bottom(i + 1, j)
        v3 == bottom(i + 1, j + 1)
    IN  <<v0, v3, v1, v0, v2, v3>>

\* wall strips: row 0, row rows1-1, column 0, column cols1-1
WallRow0(j) ==
    LET a == top(0, j)
        b == top(0, j + 1)
        A == bottom(0, j)
        B == bottom(0, j + 1)
    IN  <<a, A, B, a, B, b>>

WallRowLast(j) ==
    LET a == top(rows1 - 1, j)
        b == top(rows1 - 1, j + 1)
        A == bottom(rows1 - 1, j)
        B == bottom(rows1 - 1, j + 1)
    IN  <<a, b, B, a, B, A>>

WallCol0(i) ==
    LET a == top(i, 0)
        b == top(i + 1, 0)
        A == bottom(i, 0)
        B == bottom(i + 1, 0)
    IN  <<a, A, B, a, B, b>>

WallColLast(i) ==
    LET a == top(i, cols1 - 1)
        b == top(i + 1, cols1 - 1)
        A == bottom(i, cols1 - 1)
        B == bottom(i + 1, cols1 - 1)
    IN  <<a, b, B, a, B, A>>

\* what a loop over q = 0..n-1 pushes, the six indices six[q] in pass q
Pushed(n, six) == [k \in 1..(6 * n) |-> six[(k - 1) \div 6][((k - 1) % 6) + 1]]

\* the double loop over the cells, i outer and j inner
\* faulty variant: the row loop runs to rows1
CellsM == rows1 * (cols1 - 1)
Cells == (rows1 - 1) * (cols1 - 1)
CellRow(q) == q \div (cols1 - 1)
CellCol(q) == q % (cols1 - 1)
TopCell(q) == TopQuad(CellRow(q), CellCol(q))
BottomCell(q) == BottomQuad(CellRow(q), CellCol(q))

UnchangedButFaces ==
    /\ UNCHANGED shellVars
    /\ UNCHANGED <<R, C, lats, lons, Z, exag, base, maxDim,
                stepY, stepX,
                rows1, cols1, rowsIdx, colsIdx, scanRow,
                zMinSurface, zMaxSurface, bottomZ, positions, colors>>

FacesTop ==
    /\ pc = "facesTop"
    /\ faces' = faces \o Pushed(Cells, [q \in 0..(Cells - 1) |-> TopCell(q)])
    /\ pc' = "wallRow0"
    /\ UnchangedButFaces

FacesWallRow0 ==
    /\ pc = "wallRow0"
    /\ faces' = faces \o Pushed(cols1 - 1, [q \in 0..(cols1 - 2) |-> WallRow0(q)])
    /\ pc' = "wallRowLast"
    /\ UnchangedButFaces

FacesWallRowLast ==
    /\ pc = "wallRowLast"
    /\ faces' = faces \o Pushed(cols1 - 1, [q \in 0..(cols1 - 2) |-> WallRowLast(q)])
    /\ pc' = "wallCol0"
    /\ UnchangedButFaces

FacesWallCol0 ==
    /\ pc = "wallCol0"
    /\ faces' = faces \o Pushed(rows1 - 1, [q \in 0..(rows1 - 2) |-> WallCol0(q)])
    /\ pc' = "wallColLast"
    /\ UnchangedButFaces

FacesWallColLast ==
    /\ pc = "wallColLast"
    /\ faces' = faces \o Pushed(rows1 - 1, [q \in 0..(rows1 - 2) |-> WallColLast(q)])
    /\ pc' = "facesBottom"
    /\ UnchangedButFaces

FacesBottom ==
    /\ pc = "facesBottom"
    /\ faces' = faces \o Pushed(Cells, [q \in 0..(Cells - 1) |-> BottomCell(q)])
    /\ pc' = "done"
    /\ UnchangedButFaces

----------------------------------------------------------------------------
(* Builder specification: one call of buildSolidGeometry per behaviour *)

\* elevation patterns: Z[k] = off + sign * (k mod m)
Pattern(n, sign, m, off) == [k \in 0..(n - 1) |-> off + sign * (k % m)]

Axis(n, dir) == [i \in 0..(n - 1) |-> dir * i]

\* small grids, never decimated
SmallInputs ==
    { [R |-> r, C |-> c, Z |-> Pattern(r * c, sg, m, off), latDir |-> sg,
       exag |-> e, base |-> b, maxDim |-> 999] :
        r \in 1..MaxSmall, c \in 1..MaxSmall, sg \in {-1, 1},
        m \in 1..MaxMod, off \in (-MaxOff)..MaxOff,
        e \in {1, 2, 4}, b \in {-2, 0, 2} }

\* long thin grids, decimated with stride 2 or 3 on one axis
DecimatedInputs ==
    { [R |-> sh[1], C |-> sh[2], Z |-> Pattern(sh[1] * sh[2], sg, 4, 0),
       latDir |-> 1, exag |-> 2, base |-> b, maxDim |-> md] :
        sh \in {<<101, 2>>, <<2, 102>>, <<150, 1>>, <<201, 2>>, <<3, 250>>}, sg \in {-1, 1},
        b \in {-2, 2}, md \in {50, 100} }

\* the two grids of runTests
TestInputs ==
    { [R |-> 3, C |-> 3, Z |-> Pattern(9, 1, 9, 0), latDir |-> 1,
       exag |-> 2, base |-> 200, maxDim |-> 999],
      [R |-> 2, C |-> 2, Z |-> [k \in 0..3 |-> <<-50, -20, -10, -30>>[k + 1]],
       latDir |-> 1, exag |-> 2, base |-> 20, maxDim |-> 999] }

Inputs == SmallInputs \cup DecimatedInputs \cup TestInputs

Init ==
    /\ pc = "calcSteps"
    /\ \E in \in Inputs :
        /\ R = in.R /\ C = in.C /\ Z = in.Z
        /\ lats = Axis(in.R, in.latDir) /\ lons = Axis(in.C, 1)
        /\ exag = in.exag /\ base = in.base /\ maxDim = in.maxDim
    /\ stepY = 0 /\ stepX = 0 /\ rows1 = 0 /\ cols1 = 0
    /\ rowsIdx = <<>> /\ colsIdx = <<>> /\ scanRow = 0
    /\ zMinSurface = 0 /\ zMaxSurface = 0 /\ bottomZ = 0
    /\ positions = <<>> /\ colors = <<>> /\ faces = <<>>
    /\ ExportIdle /\ ImportIdle /\ AppIdle

Next ==
    \/ PlanStrides
    \/ BuildTables
    \/ ScanBegin
    \/ ScanRow
    \/ ScanEnd
    \/ FillTop
    \/ FillBottom
    \/ ColorTop
    \/ FacesTop
    \/ FacesWallRow0
    \/ FacesWallRowLast
    \/ FacesWallCol0
    \/ FacesWallColLast
    \/ FacesBottom

Spec == Init /\ [][Next]_vars

----------------------------------------------------------------------------
(* Properties of the triangle list *)

NumTris == Len(faces) \div 3
Corner(t, n) == faces[3 * (t - 1) + n]
Tri(t) == {Corner(t, 1), Corner(t, 2), Corner(t, 3)}
\* the three directed edges of triangle t, in winding order
DirEdges(t) == {<<Corner(t, 1), Corner(t, 2)>>, <<Corner(t, 2), Corner(t, 3)>>,
                <<Corner(t, 3), Corner(t, 1)>>}
\* the number of triangles that have the undirected edge {u, v}
Sharing(u, v) == Cardinality({s \in 1..NumTris : u \in Tri(s) /\ v \in Tri(s)})

Built == pc = "done"
Allocated == pc \notin {"calcSteps", "tables", "minmax", "scan"}

\* C1: with at least two decimated rows and two decimated columns the finished
\* triangle list is closed: every triangle has three distinct corners and each
\* of its edges lies in exactly two triangles.
C1_ClosedMesh ==
    (Built /\ rows1 >= 2 /\ cols1 >= 2) =>
        \A t \in 1..NumTris :
            /\ Cardinality(Tri(t)) = 3
            /\ \A e \in DirEdges(t) : Sharing(e[1], e[2]) = 2

C1_Witness ==
    /\ Built /\ rows1 >= 3 /\ cols1 >= 2 /\ stepY >= 2
    /\ NumTris = 4 * (rows1 - 1) * (cols1 - 1) + 4 * (rows1 + cols1 - 2)

\* C2: with at least two decimated rows and columns no directed edge u->v is
\* used by two triangles of the finished list (consistent winding).
C2_ConsistentWinding ==
    (Built /\ rows1 >= 2 /\ cols1 >= 2) =>
        \A t1, t2 \in 1..NumTris :
            t1 # t2 => DirEdges(t1) \cap DirEdges(t2) = {}

\* C3: once the buffers exist, every index pushed so far is a vertex offset in
\* 0 .. 2*rows1*cols1 - 1, the index list holds whole triangles, and the
\* position and colour buffers both have 3*2*rows1*cols1 entries.
C3_ValidBuffers ==
    Allocated =>
        /\ \A k \in 1..Len(faces) : faces[k] \in 0..(2 * rows1 * cols1 - 1)
        /\ Len(faces) % 3 = 0
        /\ DOMAIN positions = 0..(3 * 2 * rows1 * cols1 - 1)
        /\ DOMAIN colors = DOMAIN positions

C3_Witness == Built /\ rows1 = 1 /\ cols1 >= 2 /\ Len(faces) > 0

\* C4: 2*rows1*cols1 vertices; 2(r-1)(c-1) top triangles, then 4((r-1)+(c-1))
\* wall triangles, then 2(r-1)(c-1) bottom triangles; 18 vertices and 96
\* indices for the undecimated 3x3 grid.
C4_Counts ==
    LET cells == (rows1 - 1) * (cols1 - 1)
        border == (rows1 - 1) + (cols1 - 1)
    IN  /\ Allocated => Cardinality(DOMAIN positions) = 3 * 2 * rows1 * cols1
        /\ pc = "wallRow0" => NumTris = 2 * cells /\ Len(faces) = 3 * NumTris
        /\ pc = "facesBottom" => NumTris = 2 * cells + 4 * border
        /\ Built => NumTris = 2 * cells + 2 * cells + 4 * border
                    /\ Len(faces) = 3 * NumTris
        /\ (Built /\ R = 3 /\ C = 3) =>
                /\ Cardinality(DOMAIN positions) = 3 * 18
                /\ Len(faces) = 96

C4_Witness ==
    /\ Built /\ R = 3 /\ C = 3 /\ maxDim = 999 /\ base = 200
    /\ Z = [k \in 0..8 |-> k]

----------------------------------------------------------------------------
(* Properties of the decimation plan *)

Planned == pc # "calcSteps"
ClampedDim == IF maxDim < 100 THEN 100 ELSE IF maxDim > 1200 THEN 1200 ELSE maxDim
Step0(dim) == IF dim <= ClampedDim THEN 1 ELSE (dim + ClampedDim - 1) \div ClampedDim
FitsAt(f) ==
    ((R + Step0(R) * f - 1) \div (Step0(R) * f))
      * ((C + Step0(C) * f - 1) \div (Step0(C) * f)) * 2 <= 1500000

\* C5: the decimated counts are the ceilings of the dimensions over the strides
\* and, doubled, never exceed the vertex cap of 1,500,000.
C5_VertexCap ==
    Planned =>
        /\ rows1 * stepY >= R /\ (rows1 - 1) * stepY < R
        /\ cols1 * stepX >= C /\ (cols1 - 1) * stepX < C
        /\ rows1 * cols1 * 2 <= 1500000

C5_Witness ==
    /\ Planned /\ R = 5000 /\ C = 5000 /\ maxDim = 1200
    /\ ~FitsAt(1)

\* C6: the strides are the initial strides times the smallest multiplier in
\* 1..20 for which the doubled product of the decimated counts fits the cap
\* (times 21, the value at which the search stops, when none does).
C6_SmallestMultiplier ==
    Planned =>
        LET fit == {f \in 1..20 : FitsAt(f)}
            least == IF fit = {} THEN 21
                     ELSE CHOOSE f \in fit : \A g \in fit : f <= g
        IN  stepY = Step0(R) * least /\ stepX = Step0(C) * least

\* C7: the strides are at least 1, reached by at most 20 increments of the
\* multiplier, and each decimated count lies in 1..clamp(maxDim, 100, 1200).
C7_StridesAndCounts ==
    Planned =>
        /\ stepY >= 1 /\ stepX >= 1
        /\ \E f \in 1..21 : stepY = Step0(R) * f /\ stepX = Step0(C) * f
        /\ 1 <= rows1 /\ rows1 <= ClampedDim
        /\ 1 <= cols1 /\ cols1 <= ClampedDim

C7_Witness ==
    /\ Planned /\ R = 1 /\ C = 5000 /\ maxDim = 5000
    /\ rows1 = 1 /\ stepY = 1 /\ cols1 = 1000

\* C8: each lookup table starts at 0, is strictly increasing, stays inside the
\* source grid and ends at the far edge (R-1 for rows, C-1 for columns).
C8_FarEdgeIncluded ==
    pc = "minmax" =>
        /\ rowsIdx[0] = 0 /\ colsIdx[0] = 0
        /\ \A i \in DOMAIN rowsIdx : rowsIdx[i] \in 0..(R - 1)
        /\ \A j \in DOMAIN colsIdx : colsIdx[j] \in 0..(C - 1)
        /\ \A i \in 1..(rows1 - 1) : rowsIdx[i - 1] < rowsIdx[i]
        /\ \A j \in 1..(cols1 - 1) : colsIdx[j - 1] < colsIdx[j]
        /\ rowsIdx[rows1 - 1] = R - 1
        /\ colsIdx[cols1 - 1] = C - 1

----------------------------------------------------------------------------
(* Properties of the bottom plane *)

\* the exaggerated elevations of the sampled points
Sampled == {Z[rowsIdx[ii] * C + colsIdx[jj]] * exag :
                ii \in 0..(rows1 - 1), jj \in 0..(cols1 - 1)}
Least(S) == CHOOSE m \in S : \A x \in S : m <= x
HasNegative == \E k \in DOMAIN Z : Z[k] < 0

\* C9: bottomZ is the least exaggerated sampled elevation minus |baseThickness|;
\* bottom vertex rows1*cols1 + k has the x and y of top vertex k and z = bottomZ;
\* no bottom vertex lies above a top vertex.
C9_BottomPlane ==
    Built =>
        LET n == rows1 * cols1
        IN  /\ bottomZ = Least(Sampled) - (IF base < 0 THEN -base ELSE base)
            /\ \A k \in 0..(n - 1) :
                /\ positions[3 * (n + k)] = positions[3 * k]
                /\ positions[3 * (n + k) + 1] = positions[3 * k + 1]
                /\ positions[3 * (n + k) + 2] = bottomZ
            /\ \A k, m \in 0..(n - 1) :
                positions[3 * (n + k) + 2] <= positions[3 * m + 2]

C9_Witness ==
    /\ Built /\ base < 0 /\ stepY >= 2
    /\ \E k \in DOMAIN Z : Z[k] * exag < Least(Sampled)
    /\ \E k \in 0..(rows1 * cols1 - 1) : positions[3 * k] # 0 /\ positions[3 * k + 1] # 0

\* C10 as stated: for a grid with a negative elevation, baseThickness >= 0 and
\* exaggeration > 0, bottomZ is strictly below the least sampled elevation
\* (the elevation itself, in half units).
C10_BelowMinimum ==
    (Built /\ HasNegative /\ base >= 0 /\ exag > 0) =>
        bottomZ < Least({Z[rowsIdx[ii] * C + colsIdx[jj]] * 2 :
                            ii \in 0..(rows1 - 1), jj \in 0..(cols1 - 1)})

\* C10 amended: for a grid with a negative elevation, baseThickness > 0 and
\* exaggeration > 0, bottomZ is strictly below the least exaggerated sampled
\* elevation; with baseThickness = 0 it equals it.
C10_BelowExaggeratedMinimum ==
    (Built /\ HasNegative /\ base >= 0 /\ exag > 0) =>
        /\ base > 0 => bottomZ < Least(Sampled)
        /\ base = 0 => bottomZ = Least(Sampled)

C10_Witness ==
    /\ Built /\ HasNegative /\ base > 0 /\ exag = 1
    /\ Least(Sampled) < 0
    /\ bottomZ < Least(Sampled)

----------------------------------------------------------------------------
(* scalePositionsFromGeometry (lines 34-43), as exportSTL calls it *)

MaxCount == 2

\* pos.count of a buffer attribute of item size 3
Count(position) == Cardinality(DOMAIN position) \div 3

\* faulty variant: the component is copied unscaled
ScaledM(v, s) == v
\* pos.getX(i) * scale
Scaled(v, s) == v * s

CoordValues == {-1, 0, 2}
Buffers(n) == [0..(3 * n - 1) -> CoordValues]
ExportGeometries ==
    {[position |-> p,
      index |-> [k \in 0..(Count(p) - 1) |-> Count(p) - 1 - k],
      color |-> [k \in 0..(3 * Count(p) - 1) |-> 200000]] :
        p \in UNION {Buffers(n) : n \in 0..MaxCount}}
    \cup
    \* the buffer of runTests, which has no index and no color
    {[position |-> [k \in 0..5 |-> k + 1], index |-> <<>>, color |-> <<>>]}

InitExport ==
    /\ expPc = "call"
    /\ expG \in ExportGeometries
    /\ expG0 = expG
    /\ expScale \in {1000, 1}
    /\ expArr = <<>> /\ expI = 0
    /\ CoreIdle /\ ImportIdle /\ AppIdle

ExportAlloc ==
    /\ expPc = "call"
    /\ expArr' = [k \in 0..(Count(expG.position) * 3 - 1) |-> 0]
    /\ expI' = 0
    /\ expPc' = "loop"
    /\ UNCHANGED <<expG, expG0, expScale>>
    /\ UNCHANGED <<coreVars, importVars, appVars>>

ExportVertex ==
    /\ expPc = "loop"
    /\ expI < Count(expG.position)
    /\ expArr' = [expArr EXCEPT
                    ![expI * 3 + 0] = Scaled(expG.position[expI * 3 + 0], expScale),
                    ![expI * 3 + 1] = Scaled(expG.position[expI * 3 + 1], expScale),
                    ![expI * 3 + 2] = Scaled(expG.position[expI * 3 + 2], expScale)]
    /\ expI' = expI + 1
    /\ UNCHANGED <<expPc, expG, expG0, expScale>>
    /\ UNCHANGED <<coreVars, importVars, appVars>>

ExportReturn ==
    /\ expPc = "loop"
    /\ ~(expI < Count(expG.position))
    /\ expPc' = "returned"
    /\ UNCHANGED <<expG, expG0, expScale, expArr, expI>>
    /\ UNCHANGED <<coreVars, importVars, appVars>>

NextExport ==
    \/ ExportAlloc
    \/ ExportVertex
    \/ ExportReturn

SpecExport == InitExport /\ [][NextExport]_vars

\* C12: scalePositionsFromGeometry returns a new buffer as long as g's position
\* buffer, each component the input component times the factor (factor 1000
\* maps (1,2,3) to (1000,2000,3000), factor 1 is the identity), and g's
\* position, index and color arrays are as they were at the call.
C12_ScaledCopy ==
    /\ expG = expG0
    /\ expPc = "returned" =>
          /\ DOMAIN expArr = DOMAIN expG0.position
          /\ \A k \in DOMAIN expArr : expArr[k] = expG0.position[k] * expScale
          /\ expScale = 1 => expArr = expG0.position
          /\ (expScale = 1000 /\ expG0.position = [k \in 0..5 |-> k + 1]) =>
                (expArr[0] = 1000 /\ expArr[1] = 2000 /\ expArr[2] = 3000)

C12_Witness ==
    /\ expPc = "returned"
    /\ expScale = 1000
    /\ Count(expG0.position) = 2
    /\ expArr[0] = 1000 /\ expArr[5] = 6000

----------------------------------------------------------------------------
(* importH5Wasm (lines 61-92) *)

\* Values are records: kind says what the value is, by which provider made it.
Null == [kind |-> "null", by |-> ""]
Module(p) == [kind |-> "module", by |-> p]
GenericError == [kind |-> "Error", by |-> "h5wasm import failed"]
Falsy(v) == v.kind \in {"null", "undefined"}

cdnList == <<"jsdelivr", "unpkg">>
Providers == <<"package", "versioned">> \o cdnList

\* What a provider does: its import resolves to a module, rejects with an
\* Error object, or rejects with a falsy value (a module whose evaluation
\* executes "throw undefined").
Outcomes == {"module", "Error", "undefined"}
Raised(p) == [kind |-> impEnv[p], by |-> IF impEnv[p] = "Error" THEN p ELSE ""]

\* faulty variant: lastErr is thrown as it is
ThrownM(e) == e
\* lastErr || new Error("h5wasm import failed")
Thrown(e) == IF Falsy(e) THEN GenericError ELSE e

InitImport ==
    /\ impPc = "package"
    /\ impEnv \in [{Providers[k] : k \in 1..Len(Providers)} -> Outcomes]
    /\ impTried = <<>>
    /\ impUrl = 1
    /\ lastErr = Null
    /\ impResult = [how |-> "pending", value |-> Null]
    /\ CoreIdle /\ ExportIdle /\ AppIdle

\* one try block: the provider is tried; its module is returned, or its
\* rejection is caught into lastErr and control goes on
TryProvider(p, onFailure, url) ==
    /\ impTried' = Append(impTried, p)
    /\ IF impEnv[p] = "module"
          THEN /\ impResult' = [how |-> "returned", value |-> Module(p)]
               /\ impPc' = "done"
               /\ UNCHANGED <<lastErr, impUrl>>
          ELSE /\ lastErr' = Raised(p)
               /\ impPc' = onFailure
               /\ impUrl' = url
               /\ UNCHANGED impResult
    /\ UNCHANGED impEnv
    /\ UNCHANGED <<coreVars, exportVars, appVars>>

ImportPackage ==
    /\ impPc = "package"
    /\ TryProvider("package", "versioned", impUrl)

ImportVersioned ==
    /\ impPc = "versioned"
    /\ TryProvider("versioned", "cdn", impUrl)

ImportCdn ==
    /\ impPc = "cdn"
    /\ impUrl <= Len(cdnList)
    /\ TryProvider(cdnList[impUrl], "cdn", impUrl + 1)

ImportThrow ==
    /\ impPc = "cdn"
    /\ impUrl > Len(cdnList)
    /\ impResult' = [how |-> "thrown", value |-> Thrown(lastErr)]
    /\ impPc' = "done"
    /\ UNCHANGED <<impEnv, impTried, impUrl, lastErr>>
    /\ UNCHANGED <<coreVars, exportVars, appVars>>

NextImport ==
    \/ ImportPackage
    \/ ImportVersioned
    \/ ImportCdn
    \/ ImportThrow

SpecImport == InitImport /\ [][NextImport]_vars

\* order, first success and failure of all four, common to both readings
ImportOrder ==
    /\ Len(impTried) <= 4
    /\ \A k \in 1..Len(impTried) :
          impTried[k] = <<"package", "versioned", "jsdelivr", "unpkg">>[k]
    /\ \A k \in 1..(Len(impTried) - 1) : impEnv[impTried[k]] # "module"
    /\ impResult.how = "returned" =>
          /\ impTried # <<>>
          /\ impEnv[impTried[Len(impTried)]] = "module"
          /\ impResult.value = [kind |-> "module", by |-> impTried[Len(impTried)]]
    /\ impResult.how = "thrown" =>
          /\ Len(impTried) = 4
          /\ \A k \in 1..4 : impEnv[impTried[k]] # "module"
    /\ (impPc = "done" /\ \A k \in 1..4 : impEnv[Providers[k]] # "module") =>
          impResult.how = "thrown"

\* C15 as stated: providers are tried in the order package, versioned path,
\* jsdelivr, unpkg; the module of the first that succeeds is returned and no
\* later one is tried; the call throws only if all four fail, and what it
\* throws is the value the last provider raised.
C15_LastErrorThrown ==
    /\ ImportOrder
    /\ impResult.how = "thrown" =>
          impResult.value = [kind |-> impEnv["unpkg"],
                             by |-> IF impEnv["unpkg"] = "Error" THEN "unpkg" ELSE ""]

\* C15 amended: as above, but what is thrown is the value the last provider
\* raised only if that value is truthy; if it is falsy, a new Error
\* "h5wasm import failed" is thrown in its place.
C15_LastErrorOrGeneric ==
    /\ ImportOrder
    /\ impResult.how = "thrown" =>
          impResult.value =
              IF impEnv["unpkg"] = "Error"
                  THEN [kind |-> "Error", by |-> "unpkg"]
                  ELSE [kind |-> "Error", by |-> "h5wasm import failed"]

C15_Witness ==
    /\ impResult.how = "thrown"
    /\ impEnv["jsdelivr"] = "Error" /\ impEnv["unpkg"] = "undefined"
    /\ impResult.value.by = "h5wasm import failed"

----------------------------------------------------------------------------
(* The component: loadNetCDF (lines 186-286), buildOrUpdateMesh (454-484),   *)
(* the rebuild effect (486-490) and the three parameter controls.           *)
(* A ref that is null is the empty sequence, a ref that is set is a         *)
(* sequence of one element.  buildSolidGeometry is taken as a whole here:   *)
(* a mesh records the grid and the parameters it was built from, and a     *)
(* grid is told from another by its content.                                *)

MaxLoads == 2
MaxChanges == 2
MaxCells == 150000000

\* A file: whether the three variables are found, the shape of the elevation
\* dataset (hasShape FALSE: Zds.shape is undefined) and the lengths of the
\* latitude and longitude arrays.
File(v, h, sh, la, lo) ==
    [vars |-> v, hasShape |-> h, shape |-> sh, nlat |-> la, nlon |-> lo]
Files ==
    { File(TRUE, TRUE, <<2, 2>>, 2, 2),
      File(FALSE, TRUE, <<2, 2>>, 2, 2),
      File(TRUE, TRUE, <<4>>, 4, 4),
      File(TRUE, FALSE, <<>>, 0, 0),
      File(TRUE, TRUE, <<15000, 10001>>, 15000, 10001),
      File(TRUE, TRUE, <<2, 2>>, 3, 2),
      File(TRUE, TRUE, <<2, 2>>, 2, 1) }

\* Zds.shape || [0, 0]
ShapeOf(f) == IF f.hasShape THEN f.shape ELSE <<0, 0>>

\* the values of the current render, which every closure of it sees
Params == [exaggeration |-> exaggeration,
           baseThickness |-> baseThickness,
           targetMaxDim |-> targetMaxDim]

InitApp ==
    /\ exaggeration = 1 /\ baseThickness = 20 /\ targetMaxDim = 900
    /\ gridRef = <<>> /\ meshRef = <<>> /\ scene = {} /\ disposed = {}
    /\ busy = "" /\ error = ""
    /\ loads = {} /\ builds = <<>> /\ timer = <<>> /\ building = <<>>
    /\ nLoads = 0 /\ nChanges = 0 /\ nMeshes = 0
    /\ loadLog = <<>>
    /\ CoreIdle /\ ExportIdle /\ ImportIdle

UnchangedOutsideApp == UNCHANGED <<coreVars, exportVars, importVars>>

\* the file input's onChange: loadNetCDF up to its first await
StartLoad ==
    /\ building = <<>>
    /\ nLoads < MaxLoads
    /\ loads' = loads \cup {[id |-> nLoads + 1, params |-> Params]}
    /\ nLoads' = nLoads + 1
    /\ error' = ""
    /\ busy' = "parse"
    /\ UNCHANGED <<exaggeration, baseThickness, targetMaxDim, gridRef, meshRef,
                   scene, disposed, builds, timer, building, nChanges, nMeshes>>
    /\ loadLog' = <<>>
    /\ UnchangedOutsideApp

\* catch and finally of loadNetCDF: the load of file f ends with message msg
Rejected(f, msg) ==
    /\ error' = msg
    /\ busy' = ""
    /\ loadLog' = <<[file |-> f, error |-> msg, busy |-> ""]>>

\* importH5Wasm, h5.ready or file.arrayBuffer rejects
LoadFails ==
    /\ building = <<>>
    /\ \E l \in loads : \E f \in Files :
          /\ loads' = loads \ {l}
          /\ Rejected(f, "import")
    /\ UNCHANGED <<exaggeration, baseThickness, targetMaxDim, gridRef, meshRef,
                   scene, disposed, builds, timer, building, nLoads, nChanges, nMeshes>>
    /\ UnchangedOutsideApp

\* buildOrUpdateMesh up to its await (lines 455-459), called by a closure
\* that holds the parameters ps; file is the file of the load that awaits
\* the build, none when the debounce timer called it
Suspended(g, ps, file) == [grid |-> g, params |-> ps, file |-> file]

\* the awaits of lines 191-193 resolve: the synchronous part of loadNetCDF
\* from FS.writeFile to the call of buildOrUpdateMesh (lines 194-272)
LoadParse ==
    /\ building = <<>>
    /\ \E l \in loads : \E f \in Files :
          LET shape == ShapeOf(f)
          IN  /\ loads' = loads \ {l}
              /\ IF ~f.vars
                    THEN /\ Rejected(f, "variables")
                         /\ UNCHANGED <<gridRef, builds>>
                    ELSE IF Len(shape) # 2
                    THEN /\ Rejected(f, "not2d")
                         /\ UNCHANGED <<gridRef, builds>>
                    ELSE IF shape[1] * shape[2] > MaxCells
                    THEN /\ Rejected(f, "toolarge")
                         /\ UNCHANGED <<gridRef, builds>>
                    ELSE LET g == [shape |-> <<shape[1], shape[2]>>,
                                   nlat |-> f.nlat, nlon |-> f.nlon]
                         IN  /\ gridRef' = <<g>>
                             /\ builds' = Append(builds, Suspended(g, l.params, <<f>>))
                             /\ busy' = "mesh"
                             /\ UNCHANGED <<error>>
    /\ loadLog' = <<>>
    /\ UNCHANGED <<exaggeration, baseThickness, targetMaxDim, meshRef, scene,
                   disposed, timer, building, nLoads, nChanges, nMeshes>>
    /\ UnchangedOutsideApp

\* the rebuild effect after a render in which a parameter changed: the
\* cleanup of the previous effect clears its timer, then a timer is set if a
\* grid is loaded.  after counts the builds already in their 10 ms await,
\* which end before a 100 ms timer set now can fire.
Effect(ps) ==
    timer' = IF gridRef = <<>> THEN <<>>
             ELSE <<[params |-> ps, after |-> Len(builds)]>>

SetExaggeration ==
    /\ building = <<>>
    /\ nChanges < MaxChanges
    /\ \E v \in {1, 2} \ {exaggeration} :
          /\ exaggeration' = v
          /\ Effect([Params EXCEPT !.exaggeration = v])
    /\ nChanges' = nChanges + 1
    /\ UNCHANGED <<baseThickness, targetMaxDim, gridRef, meshRef, scene, disposed,
                   busy, error, loads, builds, building, nLoads, nMeshes>>
    /\ loadLog' = <<>>
    /\ UnchangedOutsideApp

SetBaseThickness ==
    /\ building = <<>>
    /\ nChanges < MaxChanges
    /\ \E v \in {20, 25} \ {baseThickness} :
          /\ baseThickness' = v
          /\ Effect([Params EXCEPT !.baseThickness = v])
    /\ nChanges' = nChanges + 1
    /\ UNCHANGED <<exaggeration, targetMaxDim, gridRef, meshRef, scene, disposed,
                   busy, error, loads, builds, building, nLoads, nMeshes>>
    /\ loadLog' = <<>>
    /\ UnchangedOutsideApp

SetTargetMaxDim ==
    /\ building = <<>>
    /\ nChanges < MaxChanges
    /\ \E v \in {900, 850} \ {targetMaxDim} :
          /\ targetMaxDim' = v
          /\ Effect([Params EXCEPT !.targetMaxDim = v])
    /\ nChanges' = nChanges + 1
    /\ UNCHANGED <<exaggeration, baseThickness, gridRef, meshRef, scene, disposed,
                   busy, error, loads, builds, building, nLoads, nMeshes>>
    /\ loadLog' = <<>>
    /\ UnchangedOutsideApp

\* the debounce timer fires: buildOrUpdateMesh of the render that set it
TimerFires ==
    /\ building = <<>>
    /\ timer # <<>>
    /\ timer[1].after = 0
    /\ timer' = <<>>
    /\ IF gridRef = <<>>
          THEN UNCHANGED <<builds, busy>>
          ELSE /\ builds' = Append(builds, Suspended(gridRef[1], timer[1].params, <<>>))
               /\ busy' = "mesh"
    /\ UNCHANGED <<exaggeration, baseThickness, targetMaxDim, gridRef, meshRef,
                   scene, disposed, error, loads, building, nLoads, nChanges,
                   nMeshes>>
    /\ loadLog' = <<>>
    /\ UnchangedOutsideApp

\* faulty variant: the old mesh stays in the scene
SceneRemoveM(sc, m) == sc
\* sceneRef.current.remove(meshRef.current)
SceneRemove(sc, m) == sc \ {m}

\* the 10 ms await of the oldest suspended build ends: buildSolidGeometry,
\* then removal and disposal of the mesh in place (lines 460-467)
BuildSwapOut ==
    /\ building = <<>>
    /\ builds # <<>>
    /\ building' = <<Head(builds)>>
    /\ builds' = Tail(builds)
    /\ timer' = IF timer # <<>> /\ timer[1].after > 0
                   THEN <<[timer[1] EXCEPT !.after = @ - 1]>>
                   ELSE timer
    /\ IF meshRef # <<>>
          THEN /\ scene' = SceneRemove(scene, meshRef[1])
               /\ disposed' = disposed \cup {meshRef[1].id}
               /\ meshRef' = <<>>
          ELSE UNCHANGED <<scene, disposed, meshRef>>
    /\ UNCHANGED <<exaggeration, baseThickness, targetMaxDim, gridRef, busy, error,
                   loads, nLoads, nChanges, nMeshes>>
    /\ loadLog' = <<>>
    /\ UnchangedOutsideApp

\* the rest of the same body (lines 469-483); if a load awaited this build,
\* its finally blocks follow (lines 273-285)
BuildSwapIn ==
    /\ building # <<>>
    /\ LET b == building[1]
           mesh == [id |-> nMeshes + 1, grid |-> b.grid, params |-> b.params]
       IN  /\ meshRef' = <<mesh>>
           /\ scene' = scene \cup {mesh}
           /\ loadLog' = IF b.file = <<>> THEN <<>>
                         ELSE <<[file |-> b.file[1], error |-> error, busy |-> ""]>>
    /\ nMeshes' = nMeshes + 1
    /\ busy' = ""
    /\ building' = <<>>
    /\ UNCHANGED <<exaggeration, baseThickness, targetMaxDim, gridRef, disposed,
                   error, loads, builds, timer, nLoads, nChanges>>
    /\ UnchangedOutsideApp

NextApp ==
    \/ StartLoad
    \/ LoadFails
    \/ LoadParse
    \/ SetExaggeration
    \/ SetBaseThickness
    \/ SetTargetMaxDim
    \/ TimerFires
    \/ BuildSwapOut
    \/ BuildSwapIn

SpecApp == InitApp /\ [][NextApp]_vars

\* no load, build or debounced rebuild is pending
Quiescent ==
    /\ loads = {} /\ builds = <<>> /\ building = <<>> /\ timer = <<>>

\* C14: once no load or build is pending, the mesh in the scene was built from
\* the grid now in gridRef with the exaggeration, baseThickness and
\* targetMaxDim of the current render, whatever the interleaving of loads,
\* parameter changes and debounced rebuilds before.
C14_LastRequestWins ==
    (Quiescent /\ gridRef # <<>>) =>
        /\ meshRef # <<>>
        /\ scene = {meshRef[1]}
        /\ meshRef[1].grid = gridRef[1]
        /\ meshRef[1].params = Params

\* what the claim calls malformed or oversized
MalformedShape(shape, nlat, nlon) ==
    \/ Len(shape) # 2
    \/ /\ Len(shape) = 2
       /\ \/ shape[1] * shape[2] = 0
          \/ shape[1] * shape[2] > 150000000
          \/ nlat # shape[1]
          \/ nlon # shape[2]

\* C16: buildSolidGeometry is never invoked with, and gridRef never holds, a
\* grid that is not 2-dimensional, is empty, has more than 150,000,000 cells
\* or whose latitude / longitude array length differs from rows / cols; a
\* load of such a file ends with the error message set and busy cleared.
C16_MalformedRejected ==
    /\ \A k \in 1..Len(building) :
          ~MalformedShape(building[k].grid.shape, building[k].grid.nlat,
                          building[k].grid.nlon)
    /\ \A k \in 1..Len(gridRef) :
          ~MalformedShape(gridRef[k].shape, gridRef[k].nlat, gridRef[k].nlon)
    /\ \A k \in 1..Len(loadLog) :
          (/\ loadLog[k].error # "import"
           /\ loadLog[k].file.vars
           /\ MalformedShape(IF loadLog[k].file.hasShape THEN loadLog[k].file.shape
                                                         ELSE <<0, 0>>,
                             loadLog[k].file.nlat, loadLog[k].file.nlon))
          => (loadLog[k].error # "" /\ loadLog[k].busy = "")

\* C17: the scene holds at most one terrain mesh and meshRef.current is that
\* mesh; every mesh made before it has been removed from the scene and
\* disposed, and this is done before the new mesh is added: while a build is
\* between the removal and the addition the scene holds no terrain mesh.
\* Builds may overlap: several may be past the start of their await at once.
C17_SingleMesh ==
    /\ Cardinality(scene) <= 1
    /\ scene = {meshRef[k] : k \in 1..Len(meshRef)}
    /\ \A m \in scene : m.id = nMeshes /\ m.id \notin disposed
    /\ disposed = 1..(nMeshes - Len(meshRef))
    /\ building # <<>> => (scene = {} /\ meshRef = <<>>)

C17_Witness ==
    /\ building # <<>>
    /\ Len(builds) >= 1
    /\ building[1].file # <<>> /\ builds[1].file = <<>>
    /\ disposed # {}

----------------------------------------------------------------------------
(* Properties of the colours *)

Colored == pc \in {"facesTop", "wallRow0", "wallRowLast", "wallCol0",
                   "wallColLast", "facesBottom", "done"}
Greatest(S) == CHOOSE m \in S : \A x \in S : m >= x

\* t of a top vertex of elevation z, in thousandths, from the sampled range
ExpectedT(z) ==
    LET lo == Least(Sampled)
        hi == Greatest(Sampled)
    IN  IF hi = lo THEN 0
        ELSE LET q == ((z - lo) * 1000) \div (hi - lo)
             IN  IF q < 0 THEN 0 ELSE IF q > 1000 THEN 1000 ELSE q

\* C11: every colour channel lies in [0,1] (0..1000000 millionths): viridis
\* stays in range for every t in [0,1]; each top vertex has the colour
\* viridis(t) at t = clamp((z - zMin) / max(1e-6, zMax - zMin), 0, 1), also when
\* all sampled elevations are equal; each bottom vertex is the gray 0.2.
\* (The range of viridis does not depend on the state: it is evaluated in the
\* single-vertex builds.)
C11_ColorRange ==
    /\ (pc = "colorTop" /\ rows1 * cols1 = 1) =>
          \A t \in 0..1000 : \A ch \in 1..3 : viridis(t)[ch] \in 0..1000000
    /\ Colored =>
          LET n == rows1 * cols1
          IN  /\ \A k \in DOMAIN colors : colors[k] \in 0..1000000
              /\ \A v \in 0..(n - 1) : \A ch \in 1..3 :
                    colors[3 * v + ch - 1] = viridis(ExpectedT(positions[3 * v + 2]))[ch]
              /\ \A v \in n..(2 * n - 1) : \A ch \in 1..3 :
                    colors[3 * v + ch - 1] = 200000

C11_Witness ==
    /\ Built /\ rows1 * cols1 >= 2
    /\ Least(Sampled) = Greatest(Sampled)
    /\ colors[0] = 324099 /\ colors[1] = 165368 /\ colors[2] = 476043

\* C13: also with one decimated row or one decimated column, no edge of the
\* finished triangle list lies in one triangle only or in more than two.
C13_DegenerateClosed ==
    (Built /\ (rows1 = 1 \/ cols1 = 1)) =>
        \A t \in 1..NumTris : \A e \in DirEdges(t) : Sharing(e[1], e[2]) = 2

====
